---- MODULE Spec2Model ----
(***************************************************************************)
(* Upload orchestration and upload-history ledger of bilibili_uploader.py: *)
(* UploadHistory (the success and failure logs), UploadController's batch  *)
(* loop, the retry loop of _upload_single_video, _get_video_path,          *)
(* VideoProcessor.split_video and the per-segment publishing loop of       *)
(* _upload_split_video; the construction of UploadController with the      *)
(* loading of the ledger files, their saving, and cleanup at the end of    *)
(* run.  Sizes are counted in units of half a GB, so that the 14.5 GB      *)
(* split margin is a whole number.                                         *)
(***************************************************************************)
EXTENDS Integers, Sequences, FiniteSets, TLC

\* ---------------------------------------------------------------- bounds
MaxUploads == 2    \* videos selected for upload in one run, over all batches
MaxRetry   == 2    \* largest configured upload.retry_times
MaxChecks  == 1    \* history validations in a row, between two flows
MaxSplitSize == 24  \* largest size the part count is examined for, half GB

\* ------------------------------------------------- configuration defaults
max_file_size_gb  == 30   \* upload.max_file_size_gb = 15 GB
split_margin_gb   == 29   \* upload.split_margin_gb  = 14.5 GB
min_free_space_gb == 10   \* upload.min_free_space_gb = 5 GB

\* ------------------------------------------------------------ input sets
\* The recordings of the folder; get_all_file_sizes gives one size per name.
Videos == {"rec1", "rec2"}

SizeOf(v) == CASE v = "rec1" -> 16     \*  8   GB, uploaded directly
               [] v = "rec2" -> 87     \* 43.5 GB, three parts

\* Position of a name in the sorted listing.
Rank(v) == CASE v = "rec1" -> 1 [] v = "rec2" -> 2

Sizes == {SizeOf(v) : v \in Videos}

\* What shutil.disk_usage may report when the resolver has to download.
FreeSpaces == {20, 26, 97}

\* BV ids a user can pick as the target of the append flow.
TargetBvids == {100}

\* BV ids the publish client can hand out for a video it creates.
NewBvids == {1, 2}

\* upload_video returning None, _select_target_bvid returning None.
None == 0

Modes == {"new", "append"}

\* rclone lsf output for the folder, or the user's selection from it.  The
\* remote may list a name more than once; sorted() keeps duplicates.
IsSorted(s) == \A i, j \in DOMAIN s : i < j => Rank(s[i]) <= Rank(s[j])

Listings(n) == {s \in UNION {[1..k -> Videos] : k \in 1..n} : IsSorted(s)}

\* ----------------------------------------------------------------- state
VARIABLES
  history,       \* UploadHistory.history: the success log
  failed,        \* UploadHistory.failed: the failure log
  stats,         \* UploadController.stats
  is_mounted,    \* RcloneManager.is_mounted
  retry_times,   \* upload.retry_times of the loaded configuration
  pc,            \* where the controller is
  videos,        \* the videos argument of _batch_upload_videos
  mode,          \* its mode argument
  target_bvid,   \* its target_bvid argument
  current,       \* the batch loop's counter
  attempt,       \* the retry loop's counter
  video_path,    \* what _get_video_path returned in this attempt
  split_files,   \* what split_video returned: plan indices materialized
  seg,           \* position of the publishing loop in split_files
  result_bvid,   \* result_bvid of _upload_split_video
  uploads,       \* videos selected for upload so far in this run
  checks,        \* history validations since the last upload flow
  calls,         \* external tool calls of the last step, in order
  published,     \* publish calls of the current attempt, in order
  task,          \* what the current task did so far, over all its attempts
  started,       \* batch positions the loop has started, in order
  results,       \* how each finished task of the batch ended, in order
  history_file,  \* UploadHistory.history_file: the file on disk
  failed_file,   \* UploadHistory.failed_file: the file on disk
  storage,       \* how a write to the data directory ends in this run
  temp_dir,      \* the subdirectories of UploadController.temp_dir on disk
  validation,    \* the last prune_invalid_records: its arguments and result
  ended,         \* how the loop of run was left: "exit", "interrupt", "raise"
  scratch,       \* the scratch files the running attempt has on disk
  mount_tried,   \* whether RcloneManager.mount has run rclone mount so far
  mount_point,   \* rclone.mount_point of the configuration, see MountPoints
  deleted        \* the recordings whose file on the remote was unlinked

vars == <<history, failed, stats, is_mounted, retry_times, pc, videos, mode,
          target_bvid, current, attempt, video_path, split_files, seg,
          result_bvid, uploads, checks, calls, published, task, started,
          results, history_file, failed_file, storage, temp_dir, validation,
          ended, scratch, mount_tried, mount_point, deleted>>

\* What only __init__, the two logs' methods and cleanup deal with.
ledger_files == <<history_file, failed_file>>

environment == <<storage, temp_dir, validation, ended, mount_tried,
                 mount_point>>

\* ------------------------------------------------------- UploadHistory
\* A ledger file on disk: "missing", "unreadable" (open fails), "corrupt"
\* (json.load fails: records is what of the list is left in the file) or
\* "ok" (records is the list json.load gives).
File(state, records) == [state |-> state, records |-> records]

Missing == File("missing", <<>>)

\* How open(file, 'w') and json.dump end in this run: "ok"; "readonly" (open
\* raises, the file is untouched); "full" (open truncates the file, the
\* write raises).
Storages == {"ok", "readonly", "full"}

load_lenient(file) == file.records

\* _load_history and _load_failed.
load(file) == IF file.state = "ok" THEN file.records ELSE <<>>

save_or_keep(file, log, st) == IF st = "ok" THEN File("ok", log) ELSE file

\* _save_history and _save_failed: the file afterwards.
save(file, log, st) ==
  IF st = "ok" THEN File("ok", log)
  ELSE IF st = "readonly" THEN file
  ELSE File("corrupt", <<>>)

is_uploaded_by_path(h, file_path, file_size) ==
  \E i \in DOMAIN h : h[i].file_path = file_path

RECURSIVE is_uploaded(_, _, _)
is_uploaded(h, file_path, file_size) ==
  IF h = <<>> THEN FALSE
  ELSE IF Head(h).file_path = file_path /\ Head(h).file_size = file_size
       THEN TRUE
       ELSE is_uploaded(Tail(h), file_path, file_size)

add_success_replacing(h, file_path, file_size, bvid, is_split, parts) ==
  Append(SelectSeq(h, LAMBDA r : r.file_path # file_path),
         [file_path |-> file_path, file_size |-> file_size,
          bvid |-> bvid, is_split |-> is_split, parts |-> parts])

\* add_success; parts is the list stored, parts or [].
add_success(h, file_path, file_size, bvid, is_split, parts) ==
  Append(h, [file_path |-> file_path, file_size |-> file_size,
             bvid |-> bvid, is_split |-> is_split, parts |-> parts])

add_failed_latest_only(f, file_path, error_msg) ==
  Append(SelectSeq(f, LAMBDA r : r.file_path # file_path),
         [file_path |-> file_path, error_msg |-> error_msg])

add_failed(f, file_path, error_msg) ==
  Append(f, [file_path |-> file_path, error_msg |-> error_msg])

Invalid_unidentified_only(h, exists, i) == h[i].bvid = None

\* prune_invalid_records; exists[i] is what validate_bvid answers for the
\* bvid of the i-th record.  Gives the new logs and the returned pair.
Invalid(h, exists, i) == h[i].bvid = None \/ ~exists[i]

RECURSIVE Filter(_, _, _, _)
Filter(h, exists, i, keep) ==
  IF i > Len(h) THEN <<>>
  ELSE IF Invalid(h, exists, i) = keep
       THEN Filter(h, exists, i + 1, keep)
       ELSE <<h[i]>> \o Filter(h, exists, i + 1, keep)

RECURSIVE AddAllFailed(_, _)
AddAllFailed(f, invalid_records) ==
  IF invalid_records = <<>> THEN f
  ELSE AddAllFailed(add_failed(f, Head(invalid_records).file_path,
                               "validate_failed"),
                    Tail(invalid_records))

prune_invalid_records(h, f, exists) ==
  LET valid_records   == Filter(h, exists, 1, TRUE)
      invalid_records == Filter(h, exists, 1, FALSE)
  IN  IF invalid_records # <<>>
      THEN [history |-> valid_records,
            failed  |-> AddAllFailed(f, invalid_records),
            checked |-> Len(h), removed |-> Len(invalid_records)]
      ELSE [history |-> h, failed |-> f, checked |-> Len(h), removed |-> 0]

prune_aborted_eager(h, f, exists, i) ==
  LET done == prune_invalid_records(SubSeq(h, 1, i - 1), f, exists)
  IN  [history |-> done.history \o SubSeq(h, i, Len(h)),
       failed  |-> done.failed, removed |-> done.removed]

\* prune_invalid_records when validate_bvid raises for the i-th record,
\* after it has answered exists for the records before: the exception
\* leaves the loop, the lists collected so far are dropped, and the logs
\* are as they were.
prune_aborted(h, f, exists, i) == [history |-> h, failed |-> f, removed |-> 0]

\* ---------------------------------------------------- UploadController
\* The result list of _get_videos_to_upload for the selected names.
RECURSIVE get_videos_to_upload(_, _)
get_videos_to_upload(selected_videos, h) ==
  IF selected_videos = <<>> THEN <<>>
  ELSE LET video == Head(selected_videos)
           rest  == get_videos_to_upload(Tail(selected_videos), h)
       IN  IF is_uploaded(h, video, SizeOf(video))
           THEN rest
           ELSE <<[filename |-> video, remote_path |-> video,
                   size |-> SizeOf(video)]>> \o rest

needs_split_any(size) == size > 0

needs_split(size) == size > max_file_size_gb

\* One record per external tool call: op names the call, n its numeric
\* argument (free space seen, plan index of the file), ok its outcome and
\* vid the BV id it returned or was given.
Call(op, n, ok, vid) == [op |-> op, n |-> n, ok |-> ok, vid |-> vid]

\* The tool calls of a task that start a child process; the other calls
\* (Path.exists, shutil.disk_usage) are made by the interpreter itself.
Tools == {"mount", "download", "probe", "cut", "cover", "create", "append"}

waits_but_cut(op) == op \notin {"mount", "cut"}

\* Whether the wrapper of a tool returns only when its child process has
\* ended: subprocess.run for ffprobe and the cover, Popen followed by
\* process.wait() for rclone copy, the cuts and the publish client; mount
\* starts rclone mount --daemon with Popen, sleeps and never waits for it.
waits(op) == op # "mount"

\* The calls of tool_calls whose child process has not been waited for
\* when the k-th call has been started, the k-th included.
in_flight(tool_calls, k) ==
  {j \in 1..k : /\ tool_calls[j].op \in Tools
                /\ (j = k \/ ~waits(tool_calls[j].op))}

\* The mount point is tried only for a video that is not split.
tries_mount_any(split) == TRUE

tries_mount(split) == ~split

\* The disk-space check before a download.
space_rejected_at_floor(free, size) == free - size <= min_free_space_gb

space_rejected(free, size) == free - size < min_free_space_gb

\* RcloneManager.get_mounted_path: a path only when the remote is mounted
\* and the file exists under the mount point.
get_mounted_path_unchecked(mounted, present) == mounted

get_mounted_path(mounted, present) == mounted /\ present

\* _get_video_path as a function of its arguments and of what the tools
\* answer: mount_ok (the mount point is populated after rclone mount),
\* present (the file exists under the mount point), free (disk_usage) and
\* dl_ok (rclone copy exits with 0).
get_video_path(size, split, mounted, mount_ok, present, free, dl_ok) ==
  LET try_mount  == tries_mount(split) /\ ~mounted
      mounted2   == IF try_mount THEN mount_ok ELSE mounted
      use_mount  == tries_mount(split) /\ get_mounted_path(mounted2, present)
      enough     == ~space_rejected(free, size)
      mcalls     == (IF try_mount THEN <<Call("mount", 0, mount_ok, None)>>
                     ELSE <<>>)
                    \o (IF tries_mount(split) /\ mounted2
                        THEN <<Call("exists", 0, present, None)>>
                        ELSE <<>>)
  IN  IF use_mount
      THEN [path |-> "mount", is_mounted |-> mounted2, calls |-> mcalls]
      ELSE IF ~enough
      THEN [path |-> "none", is_mounted |-> mounted2,
            calls |-> mcalls \o <<Call("disk_usage", free, TRUE, None)>>]
      ELSE [path |-> IF dl_ok THEN "downloads" ELSE "none",
            is_mounted |-> mounted2,
            calls |-> mcalls \o <<Call("disk_usage", free, TRUE, None),
                                  Call("download", 0, dl_ok, None)>>]

\* VideoProcessor.split_video: the number of parts, and the output files
\* (by plan index) when ffprobe gave a duration and exactly the cuts with
\* an index in made left a file behind.
\* Limits of the part size a configuration may set, in tenths of a GB:
\* 0.5 GB, 0.7 GB and the default of 14.5 GB.
Limits == {5, 7, 145}

\* The double the configuration loader makes of a limit: how far it lies
\* below the decimal value, in thousandths of 2^-53 of that value.  0.5 and
\* 14.5 are doubles themselves; the double nearest to 0.7 is
\* 0.7 * (1 - 0.571 * 2^-53).
float_shortfall(limit) == IF limit = 7 THEN 571 ELSE 0

\* The largest power of two not above k: the doubles next to a whole
\* number k >= 1 lie binade(k) * 2^-52 above it.
RECURSIVE binade(_)
binade(k) == IF k < 2 THEN 1 ELSE 2 * binade(k \div 2)

\* math.ceil(file_size_gb / max_size_gb) in the double arithmetic of the
\* interpreter, for a file of size/10 GB (a whole number of bytes, so that
\* file_size_gb is exact) and a limit of limit/10 GB.  A size that is no
\* multiple of the limit is further from a whole quotient than any rounding
\* error.  For the k-fold of the limit the division by the double of the
\* limit gives k * (1 + shortfall), and the quotient is rounded to the
\* double above k when that one is nearer than k.
math_ceil(size, limit) ==
  LET k == size \div limit
  IN  IF size % limit # 0 THEN k + 1
      ELSE IF k * float_shortfall(limit) > 1000 * binade(k) THEN k + 1
      ELSE k

num_parts(file_size_gb) == math_ceil(5 * file_size_gb, 5 * split_margin_gb)

RECURSIVE output_files_until_gap(_, _, _)
output_files_until_gap(i, n, made) ==
  IF i > n \/ i \notin made THEN <<>>
  ELSE <<i>> \o output_files_until_gap(i + 1, n, made)

RECURSIVE output_files(_, _, _)
output_files(i, n, made) ==
  IF i > n THEN <<>>
  ELSE (IF i \in made THEN <<i>> ELSE <<>>) \o output_files(i + 1, n, made)

RECURSIVE cut_calls(_, _, _)
cut_calls(i, n, made) ==
  IF i > n THEN <<>>
  ELSE <<Call("cut", i, i \in made, None)>> \o cut_calls(i + 1, n, made)

split_video_reused(file_size_gb, duration, made) ==
  [files |-> output_files(1, num_parts(file_size_gb), made), calls |-> <<>>]

split_video(file_size_gb, duration, made) ==
  IF ~duration
  THEN [files |-> <<>>, calls |-> <<Call("probe", 0, FALSE, None)>>]
  ELSE [files |-> output_files(1, num_parts(file_size_gb), made),
        calls |-> <<Call("probe", 0, TRUE, None)>>
                  \o cut_calls(1, num_parts(file_size_gb), made)]

\* BilibiliUploader.upload_video and append_video as functions of how the
\* publish client ends: "ok", "noid" (exit status 0 but no bvid in the
\* output; the video exists remotely) or "fail" (non-zero exit status).
\* new is the BV id the client gives the video if it creates it.
upload_video(out, part, new) ==
  IF out = "ok"
  THEN [bvid |-> new, call |-> Call("create", part, TRUE, new)]
  ELSE IF out = "noid"
  THEN [bvid |-> None, call |-> Call("create", part, FALSE, new)]
  ELSE [bvid |-> None, call |-> Call("create", part, FALSE, None)]

append_video(out, part, bvid) ==
  [success |-> out = "ok", call |-> Call("append", part, out = "ok", bvid)]

publish_to_latest(create, out, part, new, bvid) ==
  IF create
  THEN upload_video(out, part, new)
  ELSE [bvid |-> IF append_video(out, part, new).success THEN new ELSE None,
        call |-> append_video(out, part, new).call]

\* One publish call of _upload_normal_video or of the publishing loop:
\* upload_video when create holds, else append_video to bvid.  The bvid of
\* the result is what the caller goes on with, None when the call failed.
publish(create, out, part, new, bvid) ==
  IF create
  THEN upload_video(out, part, new)
  ELSE [bvid |-> IF append_video(out, part, bvid).success THEN bvid ELSE None,
        call |-> append_video(out, part, bvid).call]

\* VideoProcessor.extract_cover for the file of a part: one ffmpeg call;
\* made tells whether the cover file exists afterwards.  ffmpeg ending with
\* an error and an exception are reported and give False.
extract_cover(made, part) == Call("cover", part, made, None)

upload_needs_cover(cover, create, out, part, new, bvid) ==
  LET r == publish(create, IF cover.ok THEN out ELSE "fail", part, new, bvid)
  IN  [bvid |-> r.bvid, call |-> r.call, calls |-> <<cover, r.call>>]

\* The part of _upload_normal_video, and of the first iteration of the
\* publishing loop, from extract_cover to the publish call: the return
\* value of extract_cover is not looked at, and the cover is handed to
\* upload_video only if its file exists.
upload_with_cover(cover, create, out, part, new, bvid) ==
  LET r == publish(create, out, part, new, bvid)
  IN  [bvid |-> r.bvid, call |-> r.call, calls |-> <<cover, r.call>>]

\* A later iteration of the publishing loop: no cover is extracted.
upload_without_cover(create, out, part, new, bvid) ==
  LET r == publish(create, out, part, new, bvid)
  IN  [bvid |-> r.bvid, call |-> r.call, calls |-> <<r.call>>]

segment_outcome_continue(ok, i, n) ==
  IF i < n THEN "next" ELSE IF ok THEN "done" ELSE "abort"

\* What the publishing loop does after the publish call of segment i of n.
segment_outcome(ok, i, n) ==
  IF ~ok THEN "abort" ELSE IF i = n THEN "done" ELSE "next"

\* The scratch files of the running attempt: copy tells what rclone copy
\* left under temp_dir/downloads for the task ("none", "partial", "whole"),
\* split_dir whether temp_dir/splits/<stem> exists.
Scratch(copy, split_dir) == [copy |-> copy, split_dir |-> split_dir]

NoScratch == Scratch("none", FALSE)

\* RcloneManager.download_file as seen on disk, from the tool calls
\* of _get_video_path: a finished copy leaves the whole file; a copy that ends
\* with an error has written part of the file (left) or nothing.
download_file(tool_calls, left) ==
  IF \A k \in DOMAIN tool_calls : tool_calls[k].op # "download" THEN "none"
  ELSE IF \E k \in DOMAIN tool_calls : tool_calls[k].op = "download" /\ tool_calls[k].ok
  THEN "whole"
  ELSE IF left THEN "partial" ELSE "none"

\* Where the configured mount point lies: "apart" from the scratch
\* directory, or "nested", with a path that holds the string of
\* temp_dir/downloads (local_cache_path "temp" and a mount point such as
\* /data/temp/downloads_remote).
MountPoints == {"apart", "nested"}

\* The test of _cleanup_temp_files, str(temp_dir / 'downloads') in
\* video_path: whether that string occurs anywhere in the path.
in_downloads(path, mp) ==
  path = "downloads" \/ (path = "mount" /\ mp = "nested")

\* _cleanup_temp_files: the file at video_path is unlinked when the test
\* holds, the split directory removed when the task is split.
cleanup_temp_files(path, split, s, mp) ==
  Scratch(IF in_downloads(path, mp) /\ path = "downloads"
          THEN "none" ELSE s.copy,
          IF split THEN FALSE ELSE s.split_dir)

\* The recordings gone from the remote after _cleanup_temp_files: the
\* mount is writable, and a file unlinked under the mount point is
\* deleted on the remote.
cleanup_unlinks(path, mp, filename, gone) ==
  IF in_downloads(path, mp) /\ path = "mount"
  THEN gone \cup {filename} ELSE gone

\* What a task did so far: attempts ended, attempts ended by a failed
\* publish call, publish calls made, videos the client created, sleeps,
\* whether every attempt ended so far ended at the disk-space check; and
\* the two logs and the failed counter as they were when the task started.
NewTask(h, f) == [attempts |-> 0, publish_failed |-> 0, publishes |-> 0,
                  creates |-> 0, sleeps |-> 0, no_space |-> TRUE,
                  history |-> h, failed |-> f, stats_failed |-> stats.failed]

Published(t, call) ==
  [t EXCEPT !.publishes = @ + 1,
            !.creates = IF call.op = "create" /\ call.vid # None
                        THEN @ + 1 ELSE @]

\* What validate_history_flow has to show: the logs and the history file
\* prune_invalid_records started from, the answers of validate_bvid, and the
\* pair it returned.
Validation(h, f, file, exists, checked, removed) ==
  [ran |-> TRUE, history |-> h, failed |-> f, history_file |-> file,
   exists |-> exists, checked |-> checked, removed |-> removed]

NoValidation ==
  [ran |-> FALSE, history |-> <<>>, failed |-> <<>>, history_file |-> Missing,
   exists |-> <<>>, checked |-> 0, removed |-> 0]

\* Before UploadController(): everything but the ledger files, the data
\* directory and the configuration, which the run finds as they are.
Constructing ==
  /\ history = <<>>
  /\ failed = <<>>
  /\ stats = [success |-> 0, failed |-> 0, skipped |-> 0]
  /\ is_mounted = FALSE
  /\ pc = "start"
  /\ videos = <<>>
  /\ mode = "new"
  /\ target_bvid = None
  /\ current = 0
  /\ attempt = 0
  /\ video_path = "none"
  /\ split_files = <<>>
  /\ seg = 0
  /\ result_bvid = None
  /\ uploads = 0
  /\ checks = 0
  /\ calls = <<>>
  /\ published = <<>>
  /\ task = NewTask(<<>>, <<>>)
  /\ started = <<>>
  /\ results = <<>>
  /\ validation = NoValidation
  /\ ended = "no"
  /\ scratch = NoScratch
  /\ mount_tried = FALSE
  /\ deleted = {}

\* A first run: no ledger file yet, a writable data directory, no scratch
\* directory left behind; upload.retry_times is 0, 1 or the largest value.
Init ==
  /\ Constructing
  /\ retry_times \in {0, 1, MaxRetry}
  /\ history_file = Missing
  /\ failed_file = Missing
  /\ storage = "ok"
  /\ temp_dir = {}
  /\ mount_point = "apart"

\* Records an earlier run, or an earlier version, left in the history
\* file: one with a BV id and one without.
Uploaded == [file_path |-> "rec1", file_size |-> SizeOf("rec1"), bvid |-> 1,
             is_split |-> FALSE, parts |-> <<>>]

Unidentified == [file_path |-> "rec2", file_size |-> SizeOf("rec2"),
                 bvid |-> None, is_split |-> TRUE, parts |-> <<>>]

HistoryFiles == {Missing, File("unreadable", <<>>),
                 File("corrupt", <<Uploaded>>), File("ok", <<Unidentified>>)}

FailedFiles == {Missing, File("corrupt", <<>>)}

\* A later run: the ledger files are as some earlier run or the user left
\* them, and the data directory may have become read-only or its disk
\* full; one attempt per task.
InitLedger ==
  /\ Constructing
  /\ retry_times = 1
  /\ history_file \in HistoryFiles
  /\ failed_file \in FailedFiles
  /\ storage \in Storages
  /\ temp_dir = {}
  /\ mount_point = "apart"

UploadController_init_strict ==
  /\ pc = "start"
  /\ IF history_file.state \in {"unreadable", "corrupt"}
     THEN /\ pc' = "exited"
          /\ calls' = <<>>
          /\ UNCHANGED <<history, failed, task>>
     ELSE /\ history' = load(history_file)
          /\ failed' = load(failed_file)
          /\ task' = NewTask(history', failed')
          /\ pc' = "menu"
          /\ calls' = <<>>
  /\ UNCHANGED <<stats, is_mounted, retry_times, videos, mode, target_bvid,
                 current, attempt, video_path, split_files, seg, result_bvid,
                 uploads, checks, published, started, results, ledger_files,
                 environment, scratch, deleted>>

\* main up to controller.run(): Config, RcloneManager, VideoProcessor and
\* BilibiliUploader leave with sys.exit(1) when the configuration, rclone,
\* ffmpeg or the publish client is missing (which); UploadHistory loads the
\* two logs and cannot fail.  sys.exit is no Exception: nothing else runs.
UploadController_init ==
  /\ pc = "start"
  /\ \E which \in BOOLEAN :
       IF which
       THEN /\ history' = load(history_file)
            /\ failed' = load(failed_file)
            /\ task' = NewTask(history', failed')
            /\ pc' = "menu"
            /\ calls' = <<>>
       ELSE /\ pc' = "exited"
            /\ calls' = <<Call("which", 0, FALSE, None)>>
            /\ UNCHANGED <<history, failed, task>>
  /\ UNCHANGED <<stats, is_mounted, retry_times, videos, mode, target_bvid,
                 current, attempt, video_path, split_files, seg, result_bvid,
                 uploads, checks, published, started, results, ledger_files,
                 environment, scratch, deleted>>

\* The tail of a flow: _get_videos_to_upload, then the head of
\* _batch_upload_videos.  A flow with nothing to upload returns to the menu.
batch_upload_videos(selected_videos, m, bvid) ==
  LET videos_to_upload == get_videos_to_upload(selected_videos, history)
  IN  /\ pc = "menu"
      /\ \A k \in DOMAIN selected_videos : selected_videos[k] \notin deleted
      /\ uploads' = uploads + Len(selected_videos)
      /\ IF videos_to_upload = <<>>
         THEN UNCHANGED <<pc, videos, mode, target_bvid, current, started,
                          results>>
         ELSE /\ pc' = "loop"
              /\ videos' = videos_to_upload
              /\ mode' = m
              /\ target_bvid' = bvid
              /\ current' = 0
              /\ started' = <<>>
              /\ results' = <<>>
      /\ validation' = NoValidation
      /\ checks' = 0
      /\ UNCHANGED <<history, failed, stats, is_mounted, retry_times, attempt,
                     video_path, split_files, seg, result_bvid,
                     calls, published, task, ledger_files, storage,
                     temp_dir, ended, scratch, mount_tried, mount_point,
                     deleted>>

upload_new_video_flow ==
  \E selected_videos \in Listings(MaxUploads - uploads) :
     batch_upload_videos(selected_videos, "new", None)

append_video_flow ==
  \E selected_videos \in Listings(MaxUploads - uploads),
     bvid \in TargetBvids :
       batch_upload_videos(selected_videos, "append", bvid)

\* One iteration of the for loop of _batch_upload_videos up to the retry
\* loop of _upload_single_video; with retry_times = 0 the retry loop has no
\* iteration and the task returns False at once.
upload_single_video ==
  /\ pc = "loop"
  /\ current < Len(videos)
  /\ current' = current + 1
  /\ started' = Append(started, current + 1)
  /\ attempt' = 0
  /\ task' = NewTask(history, failed)
  /\ calls' = <<>>
  /\ published' = <<>>
  /\ video_path' = "none"
  /\ split_files' = <<>>
  /\ seg' = 0
  /\ result_bvid' = None
  /\ scratch' = NoScratch
  /\ IF retry_times = 0
     THEN pc' = "loop" /\ results' = Append(results, "none")
     ELSE pc' = "resolve" /\ UNCHANGED results
  /\ UNCHANGED <<history, failed, stats, is_mounted, retry_times, videos,
                 mode, target_bvid, uploads, checks, ledger_files,
                 environment, deleted>>

\* The for loop of _batch_upload_videos has run out: the statistics are
\* shown and the flow returns to the menu; the locals of the batch are gone.
batch_finished ==
  /\ pc = "loop"
  /\ current = Len(videos)
  /\ pc' = "menu"
  /\ videos' = <<>>
  /\ mode' = "new"
  /\ target_bvid' = None
  /\ current' = 0
  /\ attempt' = 0
  /\ video_path' = "none"
  /\ split_files' = <<>>
  /\ seg' = 0
  /\ result_bvid' = None
  /\ calls' = <<>>
  /\ published' = <<>>
  /\ task' = NewTask(history, failed)
  /\ started' = <<>>
  /\ results' = <<>>
  /\ scratch' = NoScratch
  /\ UNCHANGED <<history, failed, stats, is_mounted, retry_times, uploads,
                 checks, ledger_files, environment, deleted>>

except_Exception_each_attempt(error_msg, why, t) ==
  /\ task' = [t EXCEPT !.attempts = @ + 1,
                       !.publish_failed = IF why = "publish_failed"
                                          THEN @ + 1 ELSE @]
  /\ failed' = add_failed(failed, videos[current].remote_path, error_msg)
  /\ failed_file' = save(failed_file, failed', storage)
  /\ stats' = [stats EXCEPT !.failed = @ + 1]
  /\ IF attempt = retry_times - 1
     THEN results' = Append(results, "failed") /\ pc' = "loop" /\ attempt' = 0
     ELSE attempt' = attempt + 1 /\ pc' = "resolve" /\ UNCHANGED results
  /\ UNCHANGED <<history, history_file>>

except_Exception_halts(error_msg, why, t) ==
  /\ task' = [t EXCEPT !.attempts = @ + 1]
  /\ IF attempt = retry_times - 1
     THEN /\ failed' = add_failed(failed, videos[current].remote_path,
                                  error_msg)
          /\ failed_file' = save(failed_file, failed', storage)
          /\ stats' = [stats EXCEPT !.failed = @ + 1]
          /\ results' = Append(results, "failed")
          /\ pc' = "menu"
          /\ attempt' = 0
     ELSE /\ attempt' = attempt + 1
          /\ pc' = "resolve"
          /\ UNCHANGED <<failed, failed_file, stats, results>>
  /\ UNCHANGED <<history, history_file>>

except_Exception_sleeps_always(error_msg, why, t) ==
  /\ task' = [t EXCEPT !.attempts = @ + 1,
                       !.publish_failed = IF why = "publish_failed"
                                          THEN @ + 1 ELSE @,
                       !.sleeps = @ + 1]
  /\ IF attempt = retry_times - 1
     THEN /\ failed' = add_failed(failed, videos[current].remote_path,
                                  error_msg)
          /\ failed_file' = save(failed_file, failed', storage)
          /\ stats' = [stats EXCEPT !.failed = @ + 1]
          /\ results' = Append(results, "failed")
          /\ pc' = "loop"
          /\ attempt' = 0
     ELSE /\ attempt' = attempt + 1
          /\ pc' = "resolve"
          /\ UNCHANGED <<failed, failed_file, stats, results>>
  /\ UNCHANGED <<history, history_file>>

except_Exception_gives_up(error_msg, why, t) ==
  /\ task' = [t EXCEPT !.attempts = @ + 1,
                       !.publish_failed = IF why = "publish_failed"
                                          THEN @ + 1 ELSE @,
                       !.no_space = @ /\ why = "no_space",
                       !.sleeps = IF attempt = retry_times - 1
                                     \/ why = "no_space"
                                  THEN @ ELSE @ + 1]
  /\ IF attempt = retry_times - 1 \/ why = "no_space"
     THEN /\ failed' = add_failed(failed, videos[current].remote_path,
                                  error_msg)
          /\ failed_file' = save(failed_file, failed', storage)
          /\ stats' = [stats EXCEPT !.failed = @ + 1]
          /\ results' = Append(results, "failed")
          /\ pc' = "loop"
          /\ attempt' = 0
     ELSE /\ attempt' = attempt + 1
          /\ pc' = "resolve"
          /\ UNCHANGED <<failed, failed_file, stats, results>>
  /\ UNCHANGED <<history, history_file>>

\* The except branch of the retry loop; why names the step that failed.
except_Exception(error_msg, why, t) ==
  /\ task' = [t EXCEPT !.attempts = @ + 1,
                       !.publish_failed = IF why = "publish_failed"
                                          THEN @ + 1 ELSE @,
                       !.no_space = @ /\ why = "no_space",
                       !.sleeps = IF attempt = retry_times - 1
                                  THEN @ ELSE @ + 1]
  /\ IF attempt = retry_times - 1
     THEN /\ failed' = add_failed(failed, videos[current].remote_path,
                                  error_msg)
          /\ failed_file' = save(failed_file, failed', storage)
          /\ stats' = [stats EXCEPT !.failed = @ + 1]
          /\ results' = Append(results, "failed")
          /\ pc' = "loop"
          /\ attempt' = 0
     ELSE /\ attempt' = attempt + 1
          /\ pc' = "resolve"
          /\ UNCHANGED <<failed, failed_file, stats, results>>
  /\ UNCHANGED <<history, history_file>>

record_success_resolved_path(result, t) ==
  /\ history' = add_success(history, video_path, videos[current].size,
                            result, split_files # <<>>, <<>>)
  /\ history_file' = save(history_file, history', storage)
  /\ stats' = [stats EXCEPT !.success = @ + 1]
  /\ results' = Append(results, "success")
  /\ task' = [t EXCEPT !.attempts = @ + 1]
  /\ pc' = "loop"
  /\ attempt' = 0
  /\ UNCHANGED <<failed, failed_file>>

\* The success branch: add_success, called without its parts argument,
\* return True, and the batch loop's increment of the success counter.
record_success(result, t) ==
  LET bvid == IF mode = "new" THEN result ELSE target_bvid
  IN  /\ history' = add_success(history, videos[current].remote_path,
                                videos[current].size, bvid,
                                needs_split(videos[current].size), <<>>)
      /\ history_file' = save(history_file, history', storage)
      /\ stats' = [stats EXCEPT !.success = @ + 1]
      /\ results' = Append(results, "success")
      /\ task' = [t EXCEPT !.attempts = @ + 1, !.no_space = FALSE]
      /\ pc' = "loop"
      /\ attempt' = 0
      /\ UNCHANGED <<failed, failed_file>>

\* An attempt starts: _get_video_path, and the raise when it gives no path,
\* which leaves the try block before _cleanup_temp_files.
resolve_path ==
  /\ pc = "resolve"
  /\ LET size == videos[current].size
         there == IF videos[current].filename \in deleted
                  THEN {FALSE} ELSE BOOLEAN
     IN  \E r \in {get_video_path(size, needs_split(size), is_mounted,
                                  mount_ok, present, free, dl_ok) :
                     mount_ok \in BOOLEAN, present \in there,
                     free \in FreeSpaces, dl_ok \in there} :
           /\ calls' = r.calls
           /\ published' = <<>>
           /\ is_mounted' = r.is_mounted
           /\ IF r.path = "none"
              THEN except_Exception("no_video_file",
                                    IF r.calls[Len(r.calls)].op = "disk_usage"
                                    THEN "no_space" ELSE "no_path", task)
              ELSE /\ pc' = IF needs_split(size) THEN "split" ELSE "normal"
                   /\ UNCHANGED <<history, failed, stats, attempt, task,
                                  results, ledger_files>>
           /\ temp_dir' = IF \E k \in DOMAIN r.calls :
                                 r.calls[k].op = "download"
                          THEN temp_dir \cup {"downloads"} ELSE temp_dir
           /\ \E copy \in {download_file(r.calls, left) : left \in BOOLEAN} :
                scratch' = Scratch(copy, FALSE)
           /\ mount_tried' = (mount_tried
                                 \/ \E k \in DOMAIN r.calls :
                                       r.calls[k].op = "mount")
           /\ video_path' = r.path
           /\ split_files' = <<>>
           /\ seg' = 0
           /\ result_bvid' = None
  /\ UNCHANGED <<retry_times, videos, mode, target_bvid, current, uploads,
                 checks, started, storage, validation, ended, mount_point,
                 deleted>>

\* _upload_normal_video, _cleanup_temp_files and the outcome of the
\* attempt.
upload_normal_video ==
  /\ pc = "normal"
  /\ \E r \in {upload_with_cover(extract_cover(made, 0), mode = "new", out,
                                  0, new, target_bvid) :
                 made \in BOOLEAN, out \in {"ok", "noid", "fail"},
                 new \in NewBvids} :
       /\ calls' = r.calls
       /\ published' = <<r.call>>
       /\ IF r.bvid # None
          THEN record_success(r.bvid, Published(task, r.call))
          ELSE except_Exception("upload_failed", "publish_failed",
                                Published(task, r.call))
  /\ scratch' = cleanup_temp_files(video_path, FALSE, scratch, mount_point)
  /\ deleted' = cleanup_unlinks(video_path, mount_point,
                                videos[current].filename, deleted)
  /\ UNCHANGED <<is_mounted, retry_times, videos, mode, target_bvid, current,
                 video_path, split_files, seg, result_bvid, uploads, checks,
                 started, environment>>

upload_split_video_unchecked ==
  /\ pc = "split"
  /\ \E r \in {split_video(videos[current].size, duration, made) :
                 duration \in BOOLEAN,
                 made \in SUBSET (1..num_parts(videos[current].size))} :
       /\ calls' = r.calls
       /\ IF r.files = <<>>
          THEN /\ IF target_bvid # None
                  THEN record_success(target_bvid, task)
                  ELSE except_Exception("upload_failed", "split_failed", task)
               /\ split_files' = <<>>
               /\ scratch' = cleanup_temp_files(video_path, TRUE,
                                                Scratch(scratch.copy, TRUE),
                                                mount_point)
               /\ deleted' = cleanup_unlinks(video_path, mount_point,
                                             videos[current].filename,
                                             deleted)
               /\ UNCHANGED <<seg, result_bvid>>
          ELSE /\ pc' = "publish"
               /\ split_files' = r.files
               /\ scratch' = Scratch(scratch.copy, TRUE)
               /\ seg' = 1
               /\ result_bvid' = target_bvid
               /\ UNCHANGED <<history, failed, stats, attempt, task, results,
                              ledger_files, deleted>>
  /\ temp_dir' = temp_dir \cup {"splits"}
  /\ UNCHANGED <<is_mounted, retry_times, videos, mode, target_bvid, current,
                 video_path, uploads, checks, started, published, storage,
                 validation, ended, mount_tried, mount_point>>

\* The head of _upload_split_video: the split directory is made and
\* split_video runs; when it gave no file, the return of None and
\* _cleanup_temp_files.
upload_split_video ==
  /\ pc = "split"
  /\ \E r \in {split_video(videos[current].size, duration, made) :
                 duration \in BOOLEAN,
                 made \in SUBSET (1..num_parts(videos[current].size))} :
       /\ calls' = r.calls
       /\ IF r.files = <<>>
          THEN /\ except_Exception("upload_failed", "split_failed", task)
               /\ split_files' = <<>>
               /\ scratch' = cleanup_temp_files(video_path, TRUE,
                                                Scratch(scratch.copy, TRUE),
                                                mount_point)
               /\ deleted' = cleanup_unlinks(video_path, mount_point,
                                             videos[current].filename,
                                             deleted)
               /\ UNCHANGED <<seg, result_bvid>>
          ELSE /\ pc' = "publish"
               /\ split_files' = r.files
               /\ scratch' = Scratch(scratch.copy, TRUE)
               /\ seg' = 1
               /\ result_bvid' = target_bvid
               /\ UNCHANGED <<history, failed, stats, attempt, task, results,
                              ledger_files, deleted>>
  /\ temp_dir' = temp_dir \cup {"splits"}
  /\ UNCHANGED <<is_mounted, retry_times, videos, mode, target_bvid, current,
                 video_path, uploads, checks, started, published, storage,
                 validation, ended, mount_tried, mount_point>>

\* One iteration of the publishing loop of _upload_split_video; after the
\* last one, or a failed one, the outcome of the attempt.
upload_segment ==
  /\ pc = "publish"
  /\ LET i == seg
         split_file == split_files[i]
     IN  \E r \in {IF i = 1
                     THEN upload_with_cover(extract_cover(made, split_file),
                                            mode = "new", out, split_file,
                                            new, result_bvid)
                     ELSE upload_without_cover(FALSE, out, split_file, new,
                                               result_bvid) :
                     made \in BOOLEAN, out \in {"ok", "noid", "fail"},
                     new \in NewBvids} :
           /\ calls' = r.calls
           /\ published' = Append(published, r.call)
           /\ LET then == segment_outcome(r.bvid # None, i,
                                          Len(split_files))
              IN  IF then = "abort"
                  THEN /\ except_Exception("upload_failed", "publish_failed",
                                           Published(task, r.call))
                       /\ scratch' = cleanup_temp_files(video_path, TRUE,
                                                        scratch, mount_point)
                       /\ deleted' = cleanup_unlinks(
                                        video_path, mount_point,
                                        videos[current].filename, deleted)
                       /\ UNCHANGED <<seg, result_bvid>>
                  ELSE IF then = "done"
                  THEN /\ record_success(r.bvid, Published(task, r.call))
                       /\ result_bvid' = r.bvid
                       /\ scratch' = cleanup_temp_files(video_path, TRUE,
                                                        scratch, mount_point)
                       /\ deleted' = cleanup_unlinks(
                                        video_path, mount_point,
                                        videos[current].filename, deleted)
                       /\ UNCHANGED seg
                  ELSE /\ pc' = "publish"
                       /\ UNCHANGED <<scratch, deleted>>
                       /\ seg' = i + 1
                       /\ result_bvid' = IF r.bvid # None THEN r.bvid
                                         ELSE result_bvid
                       /\ task' = Published(task, r.call)
                       /\ UNCHANGED <<history, failed, stats, attempt,
                                      results, ledger_files>>
  /\ UNCHANGED <<is_mounted, retry_times, videos, mode, target_bvid, current,
                 video_path, split_files, uploads, checks, started,
                 environment>>

\* shutil.rmtree of the scratch directories in the one try block of
\* cleanup: what is left when the rmtree of fail_at raises.
rmtree(dirs, fail_at) ==
  IF fail_at \notin dirs THEN {}
  ELSE IF fail_at = "downloads" THEN dirs
  ELSE dirs \ {"downloads"}

unmount_keeps_mark(mounted, can_run) == mounted

\* RcloneManager.unmount: is_mounted afterwards; can_run tells whether
\* fusermount could be started.
unmount(mounted, can_run) == mounted /\ ~can_run

\* cleanup, reached through the finally of run; the frames of the flow that
\* was running are gone.  It touches neither log and neither ledger file.
cleanup(how) ==
  /\ pc' = "done"
  /\ ended' = how
  /\ \E r \in {[is_mounted |-> unmount(is_mounted, can_run),
                 temp_dir |-> rmtree(temp_dir, fail_at),
                 calls |-> (IF is_mounted
                            THEN <<Call("fusermount", 0, can_run, None)>>
                            ELSE <<>>)
                           \o (IF temp_dir # {}
                               THEN <<Call("rmtree", 0,
                                           fail_at \notin temp_dir, None)>>
                               ELSE <<>>)] :
                can_run \in BOOLEAN,
                fail_at \in {"none", "downloads", "splits"}} :
       /\ is_mounted' = r.is_mounted
       /\ temp_dir' = r.temp_dir
       /\ calls' = r.calls
  /\ videos' = <<>>
  /\ mode' = "new"
  /\ target_bvid' = None
  /\ current' = 0
  /\ attempt' = 0
  /\ video_path' = "none"
  /\ split_files' = <<>>
  /\ seg' = 0
  /\ result_bvid' = None
  /\ published' = <<>>
  /\ task' = NewTask(history, failed)
  /\ started' = <<>>
  /\ results' = <<>>
  /\ validation' = NoValidation
  /\ scratch' = NoScratch
  /\ UNCHANGED <<stats, retry_times, uploads, storage, mount_tried,
                 mount_point, deleted>>

\* validate_history_flow: nothing to do on an empty history, else
\* prune_invalid_records with the answers of validate_bvid.  When
\* validate_bvid raises (the client cannot be run) for a record, the
\* exception leaves the flow and run before the logs are touched.
validate_history_flow ==
  /\ pc = "menu"
  /\ checks < MaxChecks
  /\ checks' = checks + 1
  /\ IF Len(history) = 0
     THEN /\ validation' = NoValidation
          /\ UNCHANGED <<history, failed, ledger_files>>
          /\ UNCHANGED <<stats, is_mounted, retry_times, pc, videos, mode,
                         target_bvid, current, attempt, video_path,
                         split_files, seg, result_bvid, uploads, calls,
                         published, task, started, results, storage,
                         temp_dir, ended, scratch, mount_tried, mount_point,
                         deleted>>
     ELSE \/ \E exists \in [1..Len(history) -> BOOLEAN] :
               LET r == prune_invalid_records(history, failed, exists)
               IN  /\ history' = r.history
                   /\ failed' = r.failed
                   /\ history_file' = IF r.removed > 0
                                      THEN save(history_file, r.history,
                                                storage)
                                      ELSE history_file
                   /\ failed_file' = IF r.removed > 0
                                     THEN save(failed_file, r.failed, storage)
                                     ELSE failed_file
                   /\ validation' = Validation(history, failed, history_file,
                                               exists, r.checked, r.removed)
                   /\ UNCHANGED <<stats, is_mounted, retry_times, pc,
                                  videos, mode, target_bvid, current, attempt,
                                  video_path, split_files, seg, result_bvid,
                                  uploads, calls, published, task, started,
                                  results, storage, temp_dir, ended,
                                  scratch, mount_tried, mount_point,
                                  deleted>>
          \/ /\ \E r \in UNION {{prune_aborted(history, failed, exists, i) :
                                    exists \in [1..(i - 1) -> BOOLEAN]} :
                                  i \in {j \in DOMAIN history :
                                           history[j].bvid # None}} :
                  /\ history' = r.history
                  /\ failed' = r.failed
                  /\ history_file' = IF r.removed > 0
                                     THEN save(history_file, r.history,
                                               storage)
                                     ELSE history_file
                  /\ failed_file' = IF r.removed > 0
                                    THEN save(failed_file, r.failed, storage)
                                    ELSE failed_file
             /\ cleanup("raise")

\* The user picks exit: the loop of run breaks and cleanup runs.
select_exit ==
  /\ pc = "menu"
  /\ cleanup("exit")
  /\ UNCHANGED <<checks, history, failed, ledger_files>>

KeyboardInterrupt_retried ==
  /\ pc \in {"resolve", "normal", "split", "publish"}
  /\ ended' = "interrupt"
  /\ pc' = "resolve"
  /\ UNCHANGED <<history, failed, stats, is_mounted, retry_times, videos,
                 mode, target_bvid, current, attempt, video_path,
                 split_files, seg, result_bvid, uploads, checks, calls,
                 published, task, started, results, ledger_files, storage,
                 temp_dir, validation, scratch, mount_tried, mount_point,
                 deleted>>

\* Ctrl-C at the menu or anywhere in a flow: no except Exception catches
\* it, run's except KeyboardInterrupt does, and cleanup runs.
KeyboardInterrupt ==
  /\ pc \in {"menu", "loop", "resolve", "normal", "split", "publish"}
  /\ cleanup("interrupt")
  /\ UNCHANGED <<checks, history, failed, ledger_files>>

Next ==
  \/ UploadController_init
  \/ upload_new_video_flow
  \/ append_video_flow
  \/ upload_single_video
  \/ batch_finished
  \/ resolve_path
  \/ upload_normal_video
  \/ upload_split_video
  \/ upload_segment
  \/ validate_history_flow
  \/ select_exit
  \/ KeyboardInterrupt

Spec == Init /\ [][Next]_vars

SpecLedger == InitLedger /\ [][Next]_vars

\* A first run with one attempt per task, with either mount point.
InitOnce ==
  /\ Constructing
  /\ retry_times = 1
  /\ history_file = Missing
  /\ failed_file = Missing
  /\ storage = "ok"
  /\ temp_dir = {}
  /\ mount_point \in MountPoints

\* The program is one thread: a step that can be taken is taken, given that
\* the tools it waits for return and the user answers the prompts.
FairSpec == InitOnce /\ [][Next]_vars /\ WF_vars(Next)

\* ================================================================ claims
SameFingerprint(a, b) ==
  a.file_path = b.file_path /\ a.file_size = b.file_size

Entries(h, file_path, file_size) ==
  {i \in DOMAIN h : h[i].file_path = file_path /\ h[i].file_size = file_size}

\* The video the current task is about, once a task has been started.
InTask == current \in DOMAIN videos

IsSplitTask == InTask /\ needs_split(videos[current].size)

TaskEnded == pc = "loop" /\ InTask /\ Len(results) = current

\* C1: the success log never holds two entries with the same
\* (source path, size) fingerprint.
NoDuplicateFingerprint ==
  \A i, j \in DOMAIN history :
     i # j => ~SameFingerprint(history[i], history[j])

\* C2: over all attempts of a task the publish client creates at most one
\* video for the source file.
AtMostOneCreatePerTask == task.creates <= 1

\* C3: when a (path, size) pair occurs twice in a batch and its first
\* occurrence succeeded, the second one is skipped, is counted as skipped,
\* and the pair has exactly one success entry.
DuplicateInBatchSkipped ==
  \A i, j \in DOMAIN results :
     (/\ i < j
      /\ videos[i].remote_path = videos[j].remote_path
      /\ videos[i].size = videos[j].size
      /\ results[i] = "success")
     => /\ results[j] = "skipped"
        /\ stats.skipped > 0
        /\ Cardinality(Entries(history, videos[i].remote_path,
                               videos[i].size)) = 1

\* C4: is_uploaded(path, size) is true exactly when the success log holds
\* an entry with that path and that size; it is true for the pair a task has
\* just recorded and false for the same path with any other size.
IsUploadedIffEntry ==
  /\ \A v \in Videos, size \in Sizes \cup {0} :
        is_uploaded(history, v, size) <=> Entries(history, v, size) # {}
  /\ (TaskEnded /\ results[current] = "success") =>
        /\ is_uploaded(history, videos[current].remote_path,
                       videos[current].size)
        /\ \A size \in (Sizes \cup {0}) \ {videos[current].size} :
              ~is_uploaded(history, videos[current].remote_path, size)

IsUploadedWitness ==
  /\ TaskEnded
  /\ results[current] = "success"
  /\ \E v \in Videos : v # videos[current].remote_path
                       /\ ~is_uploaded(history, v, SizeOf(v))

\* C5: in one attempt the publish calls go through the segments in order,
\* each one after the successful publish of the one before, and no publish
\* call follows a failed one.
PublishInOrder ==
  /\ \A k \in DOMAIN published :
        k > 1 => published[k - 1].ok /\ published[k - 1].n < published[k].n
  /\ pc = "publish" =>
        /\ Len(published) = seg - 1
        /\ \A k \in DOMAIN published : published[k].n = split_files[k]
  /\ (IsSplitTask /\ pc \in {"resolve", "loop"} /\ published # <<>>) =>
        /\ Len(published) <= Len(split_files)
        /\ \A k \in DOMAIN published : published[k].n = split_files[k]

PublishInOrderWitness ==
  /\ IsSplitTask
  /\ pc \in {"resolve", "loop"}
  /\ Len(split_files) = 3
  /\ Len(published) = 2
  /\ published[1].ok
  /\ ~published[2].ok

\* C6: a segment with plan index above 1 is published only after the
\* segment with plan index 1 was published successfully in the same attempt.
FirstSegmentFirst ==
  \A k \in DOMAIN published :
     published[k].n > 1 =>
        \E j \in 1..(k - 1) : published[j].n = 1 /\ published[j].ok

\* C7: with retry_times = n >= 1, a direct task whose publish call failed in
\* every attempt has made exactly n publish calls and leaves exactly one new
\* failure entry, for its path, and no new success entry.
RetryExhaustion ==
  (/\ TaskEnded
   /\ ~IsSplitTask
   /\ retry_times >= 1
   /\ task.publish_failed = retry_times)
  => /\ task.publishes = retry_times
     /\ task.attempts = retry_times
     /\ results[current] = "failed"
     /\ history = task.history
     /\ failed = Append(task.failed,
                        [file_path |-> videos[current].remote_path,
                         error_msg |-> "upload_failed"])

RetryExhaustionWitness ==
  /\ TaskEnded
  /\ ~IsSplitTask
  /\ retry_times = MaxRetry
  /\ task.publish_failed = retry_times

\* C8: the batch loop starts the tasks one by one in the order given, starts
\* a task only when every task before it has ended, leaves the loop only
\* after the last task, and a task that has ended has left one entry in one
\* of the logs, whether it succeeded or ran out of attempts.
BatchNeverHalts ==
  /\ started = [k \in 1..current |-> k]
  /\ current <= Len(videos)
  /\ Len(results) = IF pc \in {"start", "exited", "menu", "loop", "done"}
                    THEN current
                    ELSE current - 1
  /\ pc \in {"menu", "done"} => current = Len(videos)
  /\ \A k \in DOMAIN results : results[k] \in {"success", "failed", "none"}
  /\ (TaskEnded /\ retry_times >= 1) =>
        \/ /\ results[current] = "success"
           /\ Len(history) = Len(task.history) + 1
           /\ failed = task.failed
        \/ /\ results[current] = "failed"
           /\ Len(failed) = Len(task.failed) + 1
           /\ history = task.history

BatchNeverHaltsWitness ==
  /\ TaskEnded
  /\ current = 2
  /\ results[1] = "failed"

\* C9: when the resolver reaches the disk-space check, rclone copy is run
\* exactly when free - size >= min_free_space_gb; otherwise no download is
\* made and no path is returned.
DownloadOnlyWithSpace ==
  \A k \in DOMAIN calls :
     /\ calls[k].op = "download" => k > 1 /\ calls[k - 1].op = "disk_usage"
     /\ calls[k].op = "disk_usage" =>
          LET enough == calls[k].n - videos[current].size
                           >= min_free_space_gb
          IN  /\ enough <=> (k < Len(calls) /\ calls[k + 1].op = "download")
              /\ ~enough => video_path = "none"

DownloadRejectedWitness ==
  /\ InTask
  /\ videos[current].size = 16
  /\ \E k \in DOMAIN calls : calls[k].op = "disk_usage" /\ calls[k].n = 20
  /\ \A k \in DOMAIN calls : calls[k].op # "download"
  /\ video_path = "none"

\* C10: for a video that has to be split the resolver never runs rclone
\* mount and never returns the path under the mount point.
SplitNeverUsesMount ==
  IsSplitTask =>
     /\ video_path \in {"none", "downloads"}
     /\ \A k \in DOMAIN calls : calls[k].op # "mount"

SplitNeverUsesMountWitness ==
  /\ IsSplitTask
  /\ pc = "split"
  /\ is_mounted
  /\ video_path = "downloads"

\* C11: for a video that is not split, the resolver returns the path under
\* the mount point, without a disk-space check and without a download,
\* when the remote is mounted after the mount step and the file exists
\* under the mount point; it goes on to the disk-space check exactly when
\* the remote is not mounted or the file is absent there.
ResolverRan ==
  calls # <<>> /\ calls[1].op \in {"mount", "exists", "disk_usage"}

Called(op) == \E k \in DOMAIN calls : calls[k].op = op

MountPreferred ==
  (InTask /\ ~IsSplitTask /\ ResolverRan) =>
     LET present == \E k \in DOMAIN calls :
                       calls[k].op = "exists" /\ calls[k].ok
     IN  /\ Called("exists") <=> is_mounted
         /\ (is_mounted /\ present) =>
               /\ video_path = "mount"
               /\ ~Called("disk_usage")
               /\ ~Called("download")
         /\ Called("disk_usage") <=> (~is_mounted \/ ~present)
         /\ video_path = "mount" <=> (is_mounted /\ present)

MountPreferredWitness ==
  /\ InTask
  /\ ~IsSplitTask
  /\ pc = "normal"
  /\ video_path = "mount"
  /\ calls = <<Call("mount", 0, TRUE, None), Call("exists", 0, TRUE, None)>>

\* C12: prune_invalid_records over a success log of n entries, k of them
\* without a BV id or with a BV id validate_bvid rejects, returns (n, k);
\* the success log is then the other n - k entries in their order, and the
\* failure log has grown by k entries, one for the path of each removed
\* entry.
Rejected ==
  {i \in DOMAIN validation.history :
     validation.history[i].bvid = None \/ ~validation.exists[i]}

Kept == DOMAIN validation.history \ Rejected

\* The j-th smallest element of a set of positions.
Nth(S, j) == CHOOSE i \in S : Cardinality({m \in S : m <= i}) = j

RevalidateResult ==
  validation.ran =>
     LET n == Len(validation.history)
         k == Cardinality(Rejected)
     IN  /\ validation.checked = n
         /\ validation.removed = k
         /\ Len(history) = n - k
         /\ \A j \in DOMAIN history :
               history[j] = validation.history[Nth(Kept, j)]
         /\ Len(failed) = Len(validation.failed) + k
         /\ SubSeq(failed, 1, Len(validation.failed)) = validation.failed
         /\ \A j \in 1..k :
               failed[Len(validation.failed) + j].file_path
                 = validation.history[Nth(Rejected, j)].file_path

RevalidateResultWitness ==
  /\ validation.ran
  /\ validation.checked = 3
  /\ validation.removed = 2
  /\ \E i \in Rejected : validation.history[i].bvid = None
  /\ \E i \in Rejected : validation.history[i].bvid # None
  /\ Rejected = {1, 3}

\* C13: prune_invalid_records is all or nothing: after a call that found
\* invalid records, either the history file holds the pruned log that is
\* in memory, or the save failed and both the log in memory and the history
\* file are as they were before the call.
RevalidateAllOrNothing ==
  (validation.ran /\ validation.removed > 0) =>
     \/ history_file = File("ok", history)
     \/ /\ history = validation.history
        /\ history_file = validation.history_file

IsPrefix(a, b) == Len(a) <= Len(b) /\ SubSeq(b, 1, Len(a)) = a

\* A step of validate_history_flow.
Revalidates == checks' = checks + 1

\* C14: a step that is not a history validation leaves every entry of the
\* success log in its place and as it was, and a step that records a
\* failure leaves the success log as it was.
SuccessEntriesKept ==
  [][/\ ~Revalidates => IsPrefix(history, history')
     /\ (~Revalidates /\ failed' # failed /\ pc # "start")
          => history' = history]_vars

SuccessEntriesKeptWitness ==
  /\ TaskEnded
  /\ results[current] = "failed"
  /\ \E i \in DOMAIN history :
        /\ history[i].file_path = videos[current].remote_path
        /\ history[i] \in {task.history[k] : k \in DOMAIN task.history}
  /\ failed # <<>>
  /\ failed[Len(failed)].file_path = videos[current].remote_path

\* C15: no step removes, reorders or changes an entry of the failure log;
\* a task that runs out of attempts adds one entry to it, and a history
\* validation adds one entry per record it removes.
FailureLogAppendOnly ==
  [][/\ IsPrefix(failed, failed')
     /\ (Len(results') > Len(results)
          /\ results'[Len(results')] = "failed")
          => Len(failed') = Len(failed) + 1
     /\ (Revalidates /\ validation'.ran)
          => Len(failed') = Len(failed) + validation'.removed]_vars

FailureLogAppendOnlyWitness ==
  \E i, j \in DOMAIN failed :
     /\ i < j
     /\ failed[i].file_path = failed[j].file_path
     /\ failed[i].error_msg = "validate_failed"
     /\ failed[j].error_msg = "upload_failed"

\* C16: once add_success has returned the history file holds the success
\* log that is in memory, and once add_failed has returned the failure file
\* holds the failure log that is in memory.
PersistedAtOnce ==
  /\ (TaskEnded /\ results[current] = "success")
       => history_file = File("ok", history)
  /\ (TaskEnded /\ results[current] = "failed")
       => failed_file = File("ok", failed)

\* The run is at the menu for the first time: nothing was selected,
\* validated or written since UploadController() returned.
Constructed == pc = "menu" /\ uploads = 0 /\ checks = 0

\* C17: a ledger file that is missing, cannot be opened or cannot be parsed
\* gives an empty log in memory and the run reaches the menu; a task that
\* then succeeds appends its entry as on a fresh ledger, and with a
\* writable data directory the history file then holds exactly the log in
\* memory.
LoadTolerant ==
  /\ Constructed =>
        /\ history_file.state # "ok" => history = <<>>
        /\ failed_file.state # "ok" => failed = <<>>
        /\ history_file.state = "ok" => history = history_file.records
  /\ (TaskEnded /\ results[current] = "success") =>
        /\ Len(history) = Len(task.history) + 1
        /\ IsPrefix(task.history, history)
        /\ history[Len(history)].file_path = videos[current].remote_path
        /\ storage = "ok" => history_file = File("ok", history)

LoadTolerantWitness ==
  /\ TaskEnded
  /\ results[current] = "success"
  /\ storage = "ok"
  /\ failed_file.state = "corrupt"
  /\ failed = <<>>
  /\ Len(history) = 1
  /\ history_file = File("ok", history)

\* C18 as claimed: with a history file that cannot be read the run ends
\* at startup, so it never gets to the menu, to a task or to a save.
UnreadableLedgerEndsRun ==
  history_file.state = "unreadable" => pc \in {"start", "exited"}

\* C18 as amended: the run ends at startup only when a required tool is
\* missing; then no task is processed and no ledger file is written.  An
\* unreadable history file does not end the run: with a writable data
\* directory it is replaced as soon as a task has succeeded.
StartupExit ==
  /\ pc = "exited" =>
        /\ calls = <<Call("which", 0, FALSE, None)>>
        /\ history = <<>> /\ failed = <<>>
        /\ uploads = 0 /\ checks = 0
        /\ stats = [success |-> 0, failed |-> 0, skipped |-> 0]
        /\ history_file \in HistoryFiles
        /\ failed_file \in FailedFiles
  /\ (history_file.state = "unreadable" /\ storage = "ok") =>
        stats.success = 0

StartupExitWitness ==
  /\ pc = "exited"
  /\ calls = <<Call("which", 0, FALSE, None)>>
  /\ history_file = File("ok", <<Unidentified>>)

\* C19: the success entry a task appends carries the remote path and the
\* size of the video as listed, is_split as decided from that size, and as
\* bvid what the create call of the successful attempt returned in mode
\* new, the target BV id in mode append.
SuccessEntryKeyed ==
  (TaskEnded /\ results[current] = "success") =>
     LET record == history[Len(history)]
         video  == videos[current]
     IN  /\ record.file_path = video.remote_path
         /\ record.file_path \in Videos
         /\ record.file_size = SizeOf(video.filename)
         /\ record.is_split = (video.size > max_file_size_gb)
         /\ mode = "new" =>
               /\ published[1].op = "create"
               /\ published[1].ok
               /\ record.bvid = published[1].vid
               /\ record.bvid \in NewBvids
         /\ mode = "append" =>
               /\ record.bvid = target_bvid
               /\ \A k \in DOMAIN published : published[k].op = "append"

SuccessEntryKeyedWitness ==
  /\ TaskEnded
  /\ results[current] = "success"
  /\ mode = "append"
  /\ IsSplitTask
  /\ video_path = "downloads"
  /\ Len(published) = 3
  /\ history[Len(history)].bvid = 100

AttemptEnded ==
  /\ InTask
  /\ retry_times >= 1
  /\ (pc = "resolve" /\ attempt > 0) \/ TaskEnded

\* C21: whenever an attempt of a task has ended, with a success, a failed
\* or partial download or a failed publish, neither the downloaded copy of
\* the source nor the split directory of the task exists any more.
ScratchCleared == AttemptEnded => scratch = NoScratch

\* The least whole number of parts of at most limit that cover size.
Ceil(size, limit) ==
  CHOOSE n \in 0..size : n * limit >= size /\ (n - 1) * limit < size

\* C22: the part count is the ceiling of size / limit for every size and
\* every limit: 2 for 29 GB and 1 for 14.4 GB with a limit of 14.5 GB; and
\* when ffprobe gave the duration, split_video runs one cut for each of
\* the parts 1..part count, whether or not a cut leaves a file.
PartCountIsCeiling ==
  /\ pc = "start" =>
        \A s \in 0..MaxSplitSize, limit \in Limits :
           math_ceil(5 * s, limit) = Ceil(5 * s, limit)
  /\ math_ceil(290, 145) = 2
  /\ math_ceil(144, 145) = 1
  /\ (IsSplitTask /\ calls # <<>> /\ calls[1].op = "probe" /\ calls[1].ok) =>
        LET n == Ceil(5 * videos[current].size, 5 * split_margin_gb)
        IN  /\ Len(calls) = 1 + n
            /\ \A i \in 1..n : calls[i + 1].op = "cut" /\ calls[i + 1].n = i

\* The current task is about a video that does not exceed
\* upload.max_file_size_gb.
IsDirectTask == InTask /\ videos[current].size <= max_file_size_gb

\* The first attempt of a direct task got a path and its publish call
\* succeeded.
DirectFirstAttemptWorked ==
  /\ TaskEnded
  /\ IsDirectTask
  /\ task.attempts = 1
  /\ published # <<>>
  /\ published[1].ok

\* C23: a video that does not exceed the threshold is uploaded directly:
\* it is never probed or cut; when the first attempt works there is exactly
\* one publish call, the success log gains exactly one entry with
\* is_split = false and the failure log none; in new mode the call creates
\* a video and the entry takes its id, in append mode the call appends to
\* the target id and creates nothing.
DirectUpload ==
  /\ (IsDirectTask /\ pc \notin {"menu", "done"}) =>
        /\ pc \notin {"split", "publish"}
        /\ ~Called("probe") /\ ~Called("cut")
        /\ split_files = <<>>
        /\ \A k \in DOMAIN published : published[k].n = 0
  /\ DirectFirstAttemptWorked =>
        LET bvid == IF mode = "new" THEN published[1].vid ELSE target_bvid
        IN  /\ Len(published) = 1
            /\ task.publishes = 1
            /\ results[current] = "success"
            /\ history = Append(task.history,
                                [file_path |-> videos[current].remote_path,
                                 file_size |-> videos[current].size,
                                 bvid |-> bvid, is_split |-> FALSE,
                                 parts |-> <<>>])
            /\ failed = task.failed
            /\ mode = "new" => /\ published[1].op = "create"
                               /\ published[1].vid \in NewBvids
                               /\ task.creates = 1
            /\ mode = "append" => /\ published[1] = Call("append", 0, TRUE,
                                                         target_bvid)
                                  /\ task.creates = 0

DirectUploadWitness ==
  /\ DirectFirstAttemptWorked
  /\ mode = "new"
  /\ video_path = "mount"
  /\ Len(history) = 1

\* C24: a keyboard interrupt ends the work: the step that takes it is the
\* teardown, whose only tool calls are fusermount and rmtree, and after it
\* no step is taken, so that no task is started, no attempt is retried and
\* no publish, cut or download call is made.
InterruptStopsWork ==
  [][/\ ended # "interrupt"
     /\ ended' = "interrupt" =>
           /\ pc' = "done"
           /\ \A k \in DOMAIN calls' :
                 calls'[k].op \in {"fusermount", "rmtree"}
           /\ stats' = stats
           /\ history' = history
           /\ failed' = failed]_vars

\* An interrupt during the first task of a run that mounted the remote
\* and made a download, with the most attempts configured.
InterruptStopsWorkWitness ==
  /\ ended = "interrupt"
  /\ retry_times = MaxRetry
  /\ stats.success = 0
  /\ stats.failed = 0
  /\ Called("fusermount")
  /\ Called("rmtree")

\* C25: in a split task all publish calls of one attempt go to one remote
\* video.  In new mode the first call creates a video and every later call
\* appends to the id that create returned in this attempt; in append mode
\* every call, the first included, appends to the target id and nothing is
\* created.
OneRemoteVideoPerAttempt ==
  IsSplitTask =>
     /\ mode = "new" =>
           \A k \in DOMAIN published :
              IF k = 1
              THEN published[k].op = "create"
              ELSE /\ published[k].op = "append"
                   /\ published[1].ok
                   /\ published[1].vid \in NewBvids
                   /\ published[k].vid = published[1].vid
     /\ mode = "append" =>
           /\ task.creates = 0
           /\ \A k \in DOMAIN published :
                 /\ published[k].op = "append"
                 /\ published[k].vid = target_bvid
     /\ pc = "publish" =>
           result_bvid = IF mode = "new" /\ published # <<>>
                         THEN published[1].vid ELSE target_bvid

\* A second attempt in new mode that created a second video and appended
\* the other two segments to it.
OneRemoteVideoPerAttemptWitness ==
  /\ TaskEnded
  /\ IsSplitTask
  /\ mode = "new"
  /\ task.creates = 2
  /\ Len(published) = 3
  /\ published[3].ok

\* C26: a task makes at most retry_times attempts and none after its first
\* successful one; the retry loop sleeps once after every failed attempt
\* that another attempt follows, and neither after a successful attempt
\* nor after the last failed one.
AttemptsAndDelays ==
  InTask =>
     /\ task.attempts <= retry_times
     /\ pc \in {"resolve", "normal", "split", "publish"} =>
           /\ attempt < retry_times
           /\ task.attempts = attempt
           /\ task.sleeps = attempt
     /\ (TaskEnded /\ retry_times >= 1) =>
           /\ task.attempts >= 1
           /\ task.sleeps = task.attempts - 1
           /\ results[current] = "failed" => task.attempts = retry_times
     /\ (TaskEnded /\ retry_times = 0) =>
           task.attempts = 0 /\ task.sleeps = 0

\* A task that failed in every one of the most attempts.
AttemptsAndDelaysWitness ==
  /\ TaskEnded
  /\ retry_times = MaxRetry
  /\ task.attempts = MaxRetry
  /\ task.sleeps = MaxRetry - 1
  /\ results[current] = "failed"

\* C27: every attempt, the first one and each retry, starts from the
\* beginning: it runs the resolver; for a split task it then runs the split
\* planner, and publishes the files this run of the planner left, from the
\* first one on, whatever the attempts before it had published.
EveryAttemptRestarts ==
  InTask =>
     /\ pc \in {"normal", "split"} =>
           /\ ResolverRan
           /\ published = <<>>
           /\ split_files = <<>>
           /\ seg = 0
     /\ pc = "split" => Called("download")
     /\ pc = "publish" =>
           /\ Len(published) = seg - 1
           /\ \A k \in DOMAIN published : published[k].n = split_files[k]
           /\ seg = 1 =>
                 /\ calls # <<>>
                 /\ calls[1] = Call("probe", 0, TRUE, None)
                 /\ split_files =
                       SelectSeq([k \in 1..(Len(calls) - 1) |-> k],
                                 LAMBDA i : calls[i + 1].ok)

\* A retry about to publish the first segment after an attempt that had
\* published the first segment and failed on the second.
EveryAttemptRestartsWitness ==
  /\ IsSplitTask
  /\ attempt = 1
  /\ pc = "publish"
  /\ seg = 1
  /\ task.publishes = 2
  /\ task.publish_failed = 1

\* C28: a task whose every attempt finds too little free disk space makes
\* all retry_times attempts, none of them with a download or a publish
\* call, and ends as a failure: the failure log gains exactly one entry,
\* for the task's path, the failed counter grows by one, and the success
\* log is untouched.
NoSpaceExhaustsAttempts ==
  /\ (AttemptEnded /\ task.no_space) =>
        /\ Called("disk_usage")
        /\ ~Called("download")
        /\ video_path = "none"
        /\ task.publishes = 0
        /\ published = <<>>
  /\ (TaskEnded /\ retry_times >= 1 /\ task.no_space) =>
        /\ task.attempts = retry_times
        /\ results[current] = "failed"
        /\ failed = Append(task.failed,
                           [file_path |-> videos[current].remote_path,
                            error_msg |-> "no_video_file"])
        /\ stats.failed = task.stats_failed + 1
        /\ history = task.history

NoSpaceExhaustsAttemptsWitness ==
  /\ TaskEnded
  /\ retry_times = MaxRetry
  /\ task.no_space
  /\ task.attempts = MaxRetry
  /\ current = 2

MountCalled(tool_calls) ==
  \E k \in DOMAIN tool_calls : tool_calls[k].op = "mount"

\* C29: rclone mount is run at most once in a run, over all tasks that are
\* not split and all their attempts: no step runs it when an earlier step
\* of the run has; and once the remote is mounted, a later resolver step
\* uses the mount point without mounting again.
MountOncePerRun ==
  [][/\ MountCalled(calls') => ~mount_tried
     /\ (is_mounted /\ pc = "resolve" /\ pc' # "done") =>
           /\ is_mounted'
           /\ ~MountCalled(calls')
           /\ ~IsSplitTask => calls'[1].op = "exists"]_vars

\* C30: a save of a log is atomic: after any step each ledger file is
\* either what it was before the step or the complete log that is in
\* memory after it, never an empty, truncated or partly written file.
SavedAtomically ==
  [][/\ history_file' \in {history_file, File("ok", history')}
     /\ failed_file' \in {failed_file, File("ok", failed')}]_vars

\* A split task has just ended as a success.
SplitTaskSucceeded ==
  TaskEnded /\ IsSplitTask /\ results[current] = "success"

\* C31: the success entry of a task that was split has is_split = true and
\* lists the segments that were published, in the order of the publish
\* calls; the list is not empty.
SplitEntryListsSegments ==
  SplitTaskSucceeded =>
     LET record == history[Len(history)]
     IN  /\ record.is_split
         /\ record.parts # <<>>
         /\ record.parts = [k \in DOMAIN published |-> published[k].n]

\* The attempt that has just ended is one in which split_video returned no
\* file: ffprobe gave no duration, or no cut left a file.
SplitGaveNothing ==
  /\ AttemptEnded
  /\ IsSplitTask
  /\ calls # <<>>
  /\ calls[1].op = "probe"

\* C32: when split_video returns no segment the attempt fails: it makes no
\* create and no append call and adds no success entry; the failure goes
\* through the retry loop like any other, so that another attempt follows
\* while attempts are left, and after the last one the task is recorded as
\* failed.
EmptyPlanFailsAttempt ==
  SplitGaveNothing =>
     /\ ~calls[1].ok \/ \A k \in 2..Len(calls) : ~calls[k].ok
     /\ split_files = <<>>
     /\ published = <<>>
     /\ ~Called("create") /\ ~Called("append")
     /\ history = task.history
     /\ pc = "resolve" => /\ attempt = task.attempts
                          /\ attempt < retry_times
                          /\ failed = task.failed
     /\ TaskEnded => /\ task.attempts = retry_times
                     /\ results[current] = "failed"
                     /\ failed = Append(task.failed,
                                        [file_path |->
                                           videos[current].remote_path,
                                         error_msg |-> "upload_failed"])
                     /\ stats.failed = task.stats_failed + 1

\* A first attempt in which ffprobe gave the duration and each of the three
\* cuts left no file, with a retry to follow.
EmptyPlanFailsAttemptWitness ==
  /\ SplitGaveNothing
  /\ pc = "resolve"
  /\ attempt = 1
  /\ calls[1].ok
  /\ Len(calls) = 4

\* split_video has just run for the current task and ffprobe gave the
\* duration.
PlannerRan ==
  IsSplitTask /\ calls # <<>> /\ calls[1] = Call("probe", 0, TRUE, None)

\* C33: in split_video a cut that leaves no file is skipped and the loop
\* goes on: the cut is run once for every plan index, in increasing order
\* and whatever the cuts before it left, and the list returned holds
\* exactly the indices whose cut left a file, in increasing order.
FailedCutSkipped ==
  PlannerRan =>
     LET n == num_parts(videos[current].size)
     IN  /\ Len(calls) = n + 1
         /\ \A i \in 1..n : /\ calls[i + 1].op = "cut"
                             /\ calls[i + 1].n = i
         /\ \A i \in 1..n :
               calls[i + 1].ok <=>
                  \E k \in DOMAIN split_files : split_files[k] = i
         /\ \A k \in DOMAIN split_files : split_files[k] \in 1..n
         /\ \A j, k \in DOMAIN split_files :
               j < k => split_files[j] < split_files[k]

\* The second of three cuts left no file; the first and the third are
\* returned.
FailedCutSkippedWitness ==
  /\ PlannerRan
  /\ pc = "publish"
  /\ ~calls[3].ok
  /\ split_files = <<1, 3>>

\* The step about to be taken extracts a cover: _upload_normal_video, or
\* the first iteration of the publishing loop.
ExtractsCover == pc = "normal" \/ (pc = "publish" /\ seg = 1)

\* C34: cover extraction is best-effort.  Whether or not it leaves a cover
\* file, the publish call of a direct task, and of the first segment of a
\* split task, is made right after it, and what the publish step returns
\* is what it returns with a cover; a direct task then ends as its publish
\* call went, with the same entry in the success log.
CoverBestEffort ==
  /\ (InTask /\ ExtractsCover) =>
        \A out \in {"ok", "noid", "fail"}, new \in NewBvids :
           LET part  == IF pc = "normal" THEN 0 ELSE split_files[1]
               bvid  == IF pc = "normal" THEN target_bvid ELSE result_bvid
               with  == upload_with_cover(extract_cover(TRUE, part),
                                          mode = "new", out, part, new, bvid)
               without == upload_with_cover(extract_cover(FALSE, part),
                                            mode = "new", out, part, new,
                                            bvid)
           IN  /\ without.bvid = with.bvid
               /\ without.call = with.call
               /\ without.calls[2] = without.call
  /\ Called("cover") =>
        /\ Len(calls) = 2
        /\ calls[1].op = "cover"
        /\ calls[2].op \in {"create", "append"}
        /\ calls[2].n = calls[1].n
        /\ published # <<>>
        /\ published[Len(published)] = calls[2]
        /\ (TaskEnded /\ IsDirectTask) =>
              IF calls[2].ok
              THEN /\ results[current] = "success"
                   /\ history =
                         Append(task.history,
                                [file_path |-> videos[current].remote_path,
                                 file_size |-> videos[current].size,
                                 bvid |-> calls[2].vid, is_split |-> FALSE,
                                 parts |-> <<>>])
              ELSE /\ results[current] = "failed"
                   /\ history = task.history

\* A direct task that ended as a success although ffmpeg left no cover.
CoverBestEffortWitness ==
  /\ TaskEnded
  /\ IsDirectTask
  /\ calls # <<>>
  /\ calls[1] = Call("cover", 0, FALSE, None)
  /\ results[current] = "success"
  /\ Len(history) = Len(task.history) + 1

\* The batch loop is running, between the start of _batch_upload_videos
\* and its final statistics.
InBatch == pc \in {"loop", "resolve", "normal", "split", "publish"}

Counted(st) == st.success + st.failed + st.skipped

\* C35: the batch counters account for every task.  With every task the
\* batch loop finishes, success + failed + skipped grows by one, and no
\* other step of a batch changes it; the success counter grows with the
\* entries appended to the success log and the failed counter with the
\* entries appended to the failure log.  So after a batch of n tasks the
\* sum has grown by n.
CountersAccountForTasks ==
  [][(InBatch /\ pc' \in {"loop", "resolve", "normal", "split", "publish"}) =>
        /\ Counted(stats') - Counted(stats) = Len(results') - Len(results)
        /\ stats'.success - stats.success = Len(history') - Len(history)
        /\ stats'.failed - stats.failed = Len(failed') - Len(failed)]_vars

\* At most one task of the batch has been started and has not returned.
OneTaskInFlight ==
  InBatch => /\ current = Len(started)
             /\ Len(started) - Len(results) \in {0, 1}
             /\ pc = "loop" <=> Len(started) = Len(results)

\* The remote was mounted by an earlier step, and rclone's mount daemon
\* is serving the mount point.
MountServing == is_mounted /\ ~MountCalled(calls)

ExitedZero(call) == call.ok \/ (call.op = "create" /\ call.vid # None)

\* The attempt that has just ended made all its publish calls, one for a
\* direct task and one per segment for a split task, and the publish
\* client completed each of them.
AllPublished ==
  /\ AttemptEnded
  /\ published # <<>>
  /\ \A k \in DOMAIN published : ExitedZero(published[k])
  /\ IsSplitTask => Len(published) = Len(split_files)

\* C37: the remote state and the ledger agree on success.  When the
\* publish client completed every publish call of an attempt, the task
\* ends there with one success entry, which is in the history file; it is
\* not retried and gets no failure entry, also when no BV id could be
\* parsed from the client's output.
RemoteAndLedgerAgree ==
  AllPublished =>
     /\ TaskEnded
     /\ results[current] = "success"
     /\ Len(history) = Len(task.history) + 1
     /\ history[Len(history)].file_path = videos[current].remote_path
     /\ history_file = File("ok", history)
     /\ failed = task.failed

\* The log is the log at the start of the task with one entry more.
OneMore(log, before) ==
  Len(log) = Len(before) + 1 /\ SubSeq(log, 1, Len(before)) = before

\* C38: a task the batch loop has finished leaves exactly one ledger
\* entry, for every configured retry count: either one success entry and
\* no failure entry, or one failure entry and no success entry.
OneEntryPerTask ==
  TaskEnded =>
     \/ OneMore(history, task.history) /\ failed = task.failed
     \/ OneMore(failed, task.failed) /\ history = task.history

\* C39: when validate_bvid raises part-way through prune_invalid_records,
\* the call is left with both logs and both ledger files as they were: no
\* success entry is removed and no failure entry appended, also for
\* records that were found invalid before the error.
AbortedRevalidateKeepsLogs ==
  [][(ended # "raise" /\ ended' = "raise") =>
        /\ history' = history
        /\ failed' = failed
        /\ history_file' = history_file
        /\ failed_file' = failed_file]_vars

\* The validation stopped at the second record, after the first one, which
\* has no BV id, had been found invalid; both are still in the log.
AbortedRevalidateKeepsLogsWitness ==
  /\ ended = "raise"
  /\ Len(history) = 2
  /\ history[1].bvid = None
  /\ history[2].bvid # None
  /\ failed = <<>>

\* C40: the cleanup of a task never deletes the source.  No recording is
\* removed from the remote, whatever the tasks, retries and cleanups of
\* the run; after an attempt that used the path under the mount point the
\* file is still there.
SourceNeverDeleted ==
  /\ deleted = {}
  /\ (InTask /\ video_path = "mount") =>
        videos[current].filename \notin deleted

====
